---------------------------- MODULE Spec2Model ----------------------------
(***************************************************************************)
(* A model of the wireframe viewer of src/index.js: the Node / Edge / Mesh *)
(* classes, the rotation transforms, the draw orchestration and the three  *)
(* pointer listeners.                                                      *)
(*                                                                         *)
(* Numbers.  The program computes in IEEE doubles.  Here a real number r   *)
(* is the integer Round(r * Scale) (fixed point, four decimal digits), a   *)
(* product is rounded to the nearest unit as a double product is rounded   *)
(* to the nearest double, and Math.sin / Math.cos are a table correct to   *)
(* the last digit.  Rounding error therefore exists in the model and       *)
(* accumulates call after call as it does in the program; "within          *)
(* tolerance" is "within UnitsPerCall units of 1/Scale for each rotation   *)
(* call made".                                                             *)
(*                                                                         *)
(* Angles.  Every angle the program passes to rotateX / rotateY is an      *)
(* integer multiple of Math.PI / 180 (Math.PI / 4, and diff * (Math.PI /   *)
(* 180) with diff a difference of integer clientX / clientY values), so an *)
(* angle is represented by that integer: its measure in degrees.           *)
(***************************************************************************)
EXTENDS Integers, Sequences, FiniteSets

VARIABLES
    nodes,             \* the Node objects: nodes[i] = [x, y, z], mutated in place
    edges,             \* the Edge objects: edges[k] = <<i, j>>, references to nodes[i], nodes[j]
    MOUSE_IS_PRESSED,  \* src/index.js:11
    pMousePos,         \* src/index.js:12
    calls,             \* recording stub: the Mesh and drawing calls made by the last handler run
    events,            \* history: every event (or direct call) handled so far, oldest first
    nodes0             \* history: the coordinates the nodes were constructed with

vars == <<nodes, edges, MOUSE_IS_PRESSED, pMousePos, calls, events, nodes0>>

---------------------------------------------------------------------------
(* Bounds of the model. *)

\* the longest pointer event sequence explored
MaxEvents == 4
\* the longest sequence of direct Mesh calls explored
MaxCalls == 2
\* the largest number of points of an explored mesh
MaxNodes == 2
\* the largest N of a full turn made of N equal rotateY calls
MaxTurns == 360
\* the rounding error one rotateX / rotateY call is allowed, in units of 1/Scale
UnitsPerCall == 2

---------------------------------------------------------------------------
(* Program constants. *)

CanvasWidth == 600
CanvasHeight == 600
NODE_SIZE == 3
PIXELS_PER_UNIT == 100

---------------------------------------------------------------------------
(* Numbers: fixed point arithmetic and the trigonometric functions. *)

\* SinTable[d + 1] = sin(d degrees), in units of 1/Scale, for d in 0..90
SinTable ==
    << 0, 175, 349, 523, 698, 872, 1045, 1219, 1392, 1564,
       1736, 1908, 2079, 2250, 2419, 2588, 2756, 2924, 3090, 3256,
       3420, 3584, 3746, 3907, 4067, 4226, 4384, 4540, 4695, 4848,
       5000, 5150, 5299, 5446, 5592, 5736, 5878, 6018, 6157, 6293,
       6428, 6561, 6691, 6820, 6947, 7071, 7193, 7314, 7431, 7547,
       7660, 7771, 7880, 7986, 8090, 8192, 8290, 8387, 8480, 8572,
       8660, 8746, 8829, 8910, 8988, 9063, 9135, 9205, 9272, 9336,
       9397, 9455, 9511, 9563, 9613, 9659, 9703, 9744, 9781, 9816,
       9848, 9877, 9903, 9925, 9945, 9962, 9976, 9986, 9994, 9998,
       10000 >>

\* the fixed point unit: the representation of 1.0
Scale == SinTable[91]

\* the number n as a fixed point value
Fix(n) == n * Scale

Abs(a) == IF a < 0 THEN -a ELSE a

\* a * b of two fixed point values, rounded to the nearest unit (ties away from 0)
Mul(a, b) ==
    LET p == a * b
    IN  IF p >= 0 THEN (2 * p + Scale) \div (2 * Scale)
                  ELSE -((2 * (-p) + Scale) \div (2 * Scale))

\* Math.sin(theta)
Sin(theta) ==
    LET d == theta % 360
    IN  IF d <= 90 THEN SinTable[d + 1]
        ELSE IF d <= 180 THEN SinTable[180 - d + 1]
        ELSE IF d <= 270 THEN -SinTable[d - 180 + 1]
        ELSE -SinTable[360 - d + 1]

\* Math.cos(theta)
Cos(theta) == Sin(theta + 90)

---------------------------------------------------------------------------
(* The recording stub of the collaborators. *)

Call(f, a) == [f |-> f, a |-> a]

\* line(x1, y1, x2, y2): one stroked segment
line(x1, y1, x2, y2) == Call("line", <<x1, y1, x2, y2>>)

\* circle(x, y, radius): one filled disc
circle(x, y, radius) == Call("circle", <<x, y, radius>>)

\* ctx.clearRect(x, y, w, h)
clearRect(x, y, w, h) == Call("clearRect", <<x, y, w, h>>)

---------------------------------------------------------------------------
(* class Node, class Edge *)

Node(x, y, z) == [x |-> x, y |-> y, z |-> z]

\* Node.draw()
NodeDraw(n) == circle(n.x * PIXELS_PER_UNIT, n.y * PIXELS_PER_UNIT, Fix(NODE_SIZE))

\* Edge.draw() as it would be had the constructor copied the coordinates of
\* its two nodes instead of keeping the references
EdgeDraw_Captured(e, ns, ns0) ==
    line(ns0[e[1]].x * PIXELS_PER_UNIT, ns0[e[1]].y * PIXELS_PER_UNIT,
         ns0[e[2]].x * PIXELS_PER_UNIT, ns0[e[2]].y * PIXELS_PER_UNIT)

\* Edge.draw(), for the edge e of a mesh whose nodes are ns now and were ns0
\* when the edge was constructed: the edge holds references, so it reads ns
EdgeDraw(e, ns, ns0) ==
    line(ns[e[1]].x * PIXELS_PER_UNIT, ns[e[1]].y * PIXELS_PER_UNIT,
         ns[e[2]].x * PIXELS_PER_UNIT, ns[e[2]].y * PIXELS_PER_UNIT)

---------------------------------------------------------------------------
(* class Mesh *)

\* the first pass of Mesh.draw(): edges[i].draw() for i from k on
RECURSIVE DrawEdges(_, _, _, _)
DrawEdges(es, ns, ns0, k) ==
    IF k > Len(es) THEN <<>>
    ELSE <<EdgeDraw(es[k], ns, ns0)>> \o DrawEdges(es, ns, ns0, k + 1)

\* the second pass of Mesh.draw(): nodes[i].draw() for i from k on
RECURSIVE DrawNodes(_, _)
DrawNodes(ns, k) ==
    IF k > Len(ns) THEN <<>>
    ELSE <<NodeDraw(ns[k])>> \o DrawNodes(ns, k + 1)

\* Mesh.draw() with its two loops exchanged
MeshDraw_NodesFirst(es, ns, ns0) ==
    <<Call("draw", <<>>)>> \o DrawNodes(ns, 1) \o DrawEdges(es, ns, ns0, 1)

\* Mesh.draw(): the calls it makes, in order
MeshDraw(es, ns, ns0) ==
    <<Call("draw", <<>>)>> \o DrawEdges(es, ns, ns0, 1) \o DrawNodes(ns, 1)

\* rotateY's loop body storing x before it computes z2 (the order-of-update bug)
RotateYNode_InPlace(n, theta) ==
    LET x2 == Mul(n.x, Cos(theta)) - Mul(n.z, Sin(theta))
        z2 == Mul(n.z, Cos(theta)) + Mul(x2, Sin(theta))
    IN  [n EXCEPT !.x = x2, !.z = z2]

\* rotateY's loop body storing z2 in y
RotateYNode_WritesY(n, theta) ==
    LET x2 == Mul(n.x, Cos(theta)) - Mul(n.z, Sin(theta))
        z2 == Mul(n.z, Cos(theta)) + Mul(n.x, Sin(theta))
    IN  [n EXCEPT !.x = x2, !.y = z2]

\* rotateY's loop body with the sign of the second sine term wrong
RotateYNode_Sign(n, theta) ==
    LET x2 == Mul(n.x, Cos(theta)) - Mul(n.z, Sin(theta))
        z2 == Mul(n.z, Cos(theta)) - Mul(n.x, Sin(theta))
    IN  [n EXCEPT !.x = x2, !.z = z2]

\* the body of rotateY's loop for one node
RotateYNode(n, theta) ==
    LET x2 == Mul(n.x, Cos(theta)) - Mul(n.z, Sin(theta))
        z2 == Mul(n.z, Cos(theta)) + Mul(n.x, Sin(theta))
    IN  [n EXCEPT !.x = x2, !.z = z2]

\* rotateX's loop body storing z before it computes y2 (the order-of-update bug)
RotateXNode_InPlace(n, theta) ==
    LET z2 == Mul(n.z, Cos(theta)) - Mul(n.y, Sin(theta))
        y2 == Mul(n.y, Cos(theta)) + Mul(z2, Sin(theta))
    IN  [n EXCEPT !.z = z2, !.y = y2]

\* rotateX's loop body turning the other way
RotateXNode_OtherWay(n, theta) ==
    LET z2 == Mul(n.z, Cos(theta)) + Mul(n.y, Sin(theta))
        y2 == Mul(n.y, Cos(theta)) - Mul(n.z, Sin(theta))
    IN  [n EXCEPT !.z = z2, !.y = y2]

\* the body of rotateX's loop for one node
RotateXNode(n, theta) ==
    LET z2 == Mul(n.z, Cos(theta)) - Mul(n.y, Sin(theta))
        y2 == Mul(n.y, Cos(theta)) + Mul(n.z, Sin(theta))
    IN  [n EXCEPT !.z = z2, !.y = y2]

\* rotateY's loop from index i on, over the node array ns
RECURSIVE RotateYLoop(_, _, _)
RotateYLoop(ns, i, theta) ==
    IF i > Len(ns) THEN ns
    ELSE RotateYLoop([ns EXCEPT ![i] = RotateYNode(ns[i], theta)], i + 1, theta)

\* rotateX's loop from index i on, over the node array ns
RECURSIVE RotateXLoop(_, _, _)
RotateXLoop(ns, i, theta) ==
    IF i > Len(ns) THEN ns
    ELSE RotateXLoop([ns EXCEPT ![i] = RotateXNode(ns[i], theta)], i + 1, theta)

\* Mesh.rotateY(theta): the node array after the call
MeshRotateY(ns, theta) == RotateYLoop(ns, 1, theta)

\* Mesh.rotateX(theta): the node array after the call
MeshRotateX(ns, theta) == RotateXLoop(ns, 1, theta)

---------------------------------------------------------------------------
(* The script: the cube, its first two rotations and its first draw. *)

CubeNodes ==
    << Node(Fix(-1), Fix(-1), Fix(-1)),
       Node(Fix(1),  Fix(-1), Fix(-1)),
       Node(Fix(1),  Fix(-1), Fix(1)),
       Node(Fix(-1), Fix(-1), Fix(1)),
       Node(Fix(-1), Fix(1),  Fix(-1)),
       Node(Fix(1),  Fix(1),  Fix(-1)),
       Node(Fix(1),  Fix(1),  Fix(1)),
       Node(Fix(-1), Fix(1),  Fix(1)) >>

\* new Edge(nodes[i], nodes[j]), with the indices counted from 1
CubeEdges ==
    << <<1, 2>>, <<1, 5>>, <<1, 4>>, <<2, 6>>, <<2, 3>>, <<4, 3>>,
       <<4, 8>>, <<3, 7>>, <<5, 6>>, <<6, 7>>, <<7, 8>>, <<8, 5>> >>

\* the state once the script has run to its end
Init ==
    LET n1 == MeshRotateY(CubeNodes, 45)
        n2 == MeshRotateX(n1, 45)
    IN  /\ nodes = n2
        /\ edges = CubeEdges
        /\ MOUSE_IS_PRESSED = FALSE
        /\ pMousePos = <<0, 0>>
        /\ calls = <<Call("rotateY", <<45>>), Call("rotateX", <<45>>)>>
                   \o MeshDraw(CubeEdges, n2, CubeNodes)
        /\ events = <<>>
        /\ nodes0 = CubeNodes

---------------------------------------------------------------------------
(* The listeners. *)

\* the clientX and clientY values of the explored pointer events
ClientXs == {100, 110}
ClientYs == {100, 105}

Event(type, x, y) == [type |-> type, x |-> x, y |-> y]

\* the "mousedown" listener
MouseDown ==
    /\ Len(events) < MaxEvents
    /\ MOUSE_IS_PRESSED' = TRUE
    /\ calls' = <<>>
    /\ events' = Append(events, Event("mousedown", 0, 0))
    /\ UNCHANGED <<nodes, edges, pMousePos, nodes0>>

\* the "mouseup" listener
MouseUp ==
    /\ Len(events) < MaxEvents
    /\ MOUSE_IS_PRESSED' = FALSE
    /\ calls' = <<>>
    /\ events' = Append(events, Event("mouseup", 0, 0))
    /\ UNCHANGED <<nodes, edges, pMousePos, nodes0>>

\* the "mousemove" listener calling rotateX before rotateY
MoveHandler_XFirst(ns, es, ns0, pressed, pPos, clientX, clientY) ==
    LET mousePos == <<clientX, clientY>>
        diffX == mousePos[1] - pPos[1]
        diffY == mousePos[2] - pPos[2]
        n1 == MeshRotateX(ns, diffY)
        n2 == MeshRotateY(n1, diffX)
    IN  IF pressed
        THEN << n2,
                <<Call("rotateX", <<diffY>>), Call("rotateY", <<diffX>>),
                  clearRect(Fix(-(CanvasWidth \div 2)), Fix(-(CanvasWidth \div 2)),
                            Fix(CanvasWidth), Fix(CanvasHeight))>>
                \o MeshDraw(es, n2, ns0),
                mousePos >>
        ELSE << ns, <<>>, mousePos >>

\* the "mousemove" listener storing the pointer position only while pressed
MoveHandler_StoreWhenPressed(ns, es, ns0, pressed, pPos, clientX, clientY) ==
    LET mousePos == <<clientX, clientY>>
        diffX == mousePos[1] - pPos[1]
        diffY == mousePos[2] - pPos[2]
        n1 == MeshRotateY(ns, diffX)
        n2 == MeshRotateX(n1, diffY)
    IN  IF pressed
        THEN << n2,
                <<Call("rotateY", <<diffX>>), Call("rotateX", <<diffY>>),
                  clearRect(Fix(-(CanvasWidth \div 2)), Fix(-(CanvasWidth \div 2)),
                            Fix(CanvasWidth), Fix(CanvasHeight))>>
                \o MeshDraw(es, n2, ns0),
                mousePos >>
        ELSE << ns, <<>>, pPos >>

\* the "mousemove" listener without its test of MOUSE_IS_PRESSED
MoveHandler_NoTest(ns, es, ns0, pressed, pPos, clientX, clientY) ==
    LET mousePos == <<clientX, clientY>>
        diffX == mousePos[1] - pPos[1]
        diffY == mousePos[2] - pPos[2]
        n1 == MeshRotateY(ns, diffX)
        n2 == MeshRotateX(n1, diffY)
    IN  << n2,
           <<Call("rotateY", <<diffX>>), Call("rotateX", <<diffY>>),
             clearRect(Fix(-(CanvasWidth \div 2)), Fix(-(CanvasWidth \div 2)),
                       Fix(CanvasWidth), Fix(CanvasHeight))>>
           \o MeshDraw(es, n2, ns0),
           mousePos >>

\* the body of the "mousemove" listener: what it leaves in
\* <<nodes, calls, pMousePos>> for the event at (clientX, clientY)
MoveHandler(ns, es, ns0, pressed, pPos, clientX, clientY) ==
    LET mousePos == <<clientX, clientY>>
        diffX == mousePos[1] - pPos[1]
        diffY == mousePos[2] - pPos[2]
        n1 == MeshRotateY(ns, diffX)
        n2 == MeshRotateX(n1, diffY)
    IN  IF pressed
        THEN << n2,
                <<Call("rotateY", <<diffX>>), Call("rotateX", <<diffY>>),
                  clearRect(Fix(-(CanvasWidth \div 2)), Fix(-(CanvasWidth \div 2)),
                            Fix(CanvasWidth), Fix(CanvasHeight))>>
                \o MeshDraw(es, n2, ns0),
                mousePos >>
        ELSE << ns, <<>>, mousePos >>

\* the "mousemove" listener
MouseMove ==
    /\ Len(events) < MaxEvents
    /\ \E clientX \in ClientXs, clientY \in ClientYs :
         LET r == MoveHandler(nodes, edges, nodes0, MOUSE_IS_PRESSED, pMousePos,
                              clientX, clientY)
         IN  /\ nodes' = r[1]
             /\ calls' = r[2]
             /\ pMousePos' = r[3]
             /\ events' = Append(events, Event("mousemove", clientX, clientY))
    /\ UNCHANGED <<edges, MOUSE_IS_PRESSED, nodes0>>

Next == MouseDown \/ MouseUp \/ MouseMove

Spec == Init /\ [][Next]_vars

---------------------------------------------------------------------------
(* A harness for the Mesh class alone: a mesh is constructed from explored *)
(* points and edges, and its methods are called directly.                  *)

\* the point (a/2, b/2, c/2)
Pt(a, b, c) == Node((a * Scale) \div 2, (b * Scale) \div 2, (c * Scale) \div 2)

\* the coordinates the explored meshes are built from
TestPoints == {Pt(2, 0, 0), Pt(0, 2, 0), Pt(-2, -1, -2), Pt(2, -2, 2)}

\* the explored node arrays: every array of 1..MaxNodes explored points
TestNodes == UNION {[1..n -> TestPoints] : n \in 1..MaxNodes}

\* the explored edge arrays over n nodes: new Edge(nodes[k], nodes[k+1]) for k in 1..m
TestEdges(n) == {[k \in 1..m |-> <<k, k + 1>>] : m \in 0..(n - 1)}

\* the explored angles of a direct call
Angles == {-30, 45, 90}

DirectCall(f, theta) == [type |-> f, theta |-> theta]

\* new Mesh(nodes, edges)
InitMesh ==
    /\ nodes \in TestNodes
    /\ edges \in TestEdges(Len(nodes))
    /\ MOUSE_IS_PRESSED = FALSE
    /\ pMousePos = <<0, 0>>
    /\ calls = <<>>
    /\ events = <<>>
    /\ nodes0 = nodes

\* mesh.rotateY(theta)
DoRotateY(theta) ==
    /\ nodes' = MeshRotateY(nodes, theta)
    /\ calls' = <<Call("rotateY", <<theta>>)>>
    /\ events' = Append(events, DirectCall("rotateY", theta))
    /\ UNCHANGED <<edges, MOUSE_IS_PRESSED, pMousePos, nodes0>>

\* mesh.rotateX(theta)
DoRotateX(theta) ==
    /\ nodes' = MeshRotateX(nodes, theta)
    /\ calls' = <<Call("rotateX", <<theta>>)>>
    /\ events' = Append(events, DirectCall("rotateX", theta))
    /\ UNCHANGED <<edges, MOUSE_IS_PRESSED, pMousePos, nodes0>>

\* mesh.draw()
DoDraw ==
    /\ calls' = MeshDraw(edges, nodes, nodes0)
    /\ events' = Append(events, DirectCall("draw", 0))
    /\ UNCHANGED <<nodes, edges, MOUSE_IS_PRESSED, pMousePos, nodes0>>

CallRotateY == Len(events) < MaxCalls /\ \E theta \in Angles : DoRotateY(theta)

CallRotateX == Len(events) < MaxCalls /\ \E theta \in Angles : DoRotateX(theta)

CallDraw == Len(events) < MaxCalls /\ DoDraw

NextMesh == CallRotateY \/ CallRotateX \/ CallDraw

SpecMesh == InitMesh /\ [][NextMesh]_vars

---------------------------------------------------------------------------
(* A harness for full turns: the same rotateY(theta) is called again and   *)
(* again, for the angles theta of which a whole number N <= MaxTurns makes *)
(* one turn, in either direction.                                          *)

TurnAngles == {d \in 1..360 : 360 % d = 0 /\ 360 \div d <= MaxTurns}
              \cup {-d : d \in {e \in 1..360 : 360 % e = 0 /\ 360 \div e <= MaxTurns}}

Turn ==
    \E theta \in TurnAngles :
        /\ IF events = <<>> THEN TRUE ELSE events[1].theta = theta
        /\ (Len(events) + 1) * Abs(theta) <= 360
        /\ DoRotateY(theta)

NextTurn == Turn

SpecTurn == InitMesh /\ [][NextTurn]_vars


---------------------------------------------------------------------------
(* Vocabulary of the properties. *)

Last(s) == s[Len(s)]

\* the largest r with r * r <= n
RECURSIVE SqrtStep(_, _)
SqrtStep(n, r) ==
    LET r2 == (r + n \div r) \div 2
    IN  IF r2 >= r THEN r ELSE SqrtStep(n, r2)

Isqrt(n) == IF n = 0 THEN 0 ELSE SqrtStep(n, n)

\* the distance between the points p and q, rounded down to a unit
Dist(p, q) ==
    Isqrt((p.x - q.x) * (p.x - q.x) + (p.y - q.y) * (p.y - q.y)
          + (p.z - q.z) * (p.z - q.z))

RECURSIVE SumOf(_, _, _)
SumOf(ns, c, k) ==
    IF k > Len(ns) THEN 0
    ELSE (IF c = "x" THEN ns[k].x ELSE IF c = "y" THEN ns[k].y ELSE ns[k].z)
         + SumOf(ns, c, k + 1)

\* the centroid of the points ns
Centroid(ns) ==
    Node(SumOf(ns, "x", 1) \div Len(ns), SumOf(ns, "y", 1) \div Len(ns),
         SumOf(ns, "z", 1) \div Len(ns))

\* the tolerance after n rotateX / rotateY calls: each call rounds, so the
\* error it may add is a few units, and the errors of the calls add up
Tolerance(n) == UnitsPerCall * n

\* the values a and b agree within tol units
Near(a, b, tol) == Abs(a - b) <= tol

\* the points p and q agree within tol units, coordinate by coordinate
NearPoint(p, q, tol) == Near(p.x, q.x, tol) /\ Near(p.y, q.y, tol) /\ Near(p.z, q.z, tol)

\* the node arrays ns and ms agree within tol units, point by point
NearNodes(ns, ms, tol) ==
    Len(ns) = Len(ms) /\ \A i \in 1..Len(ns) : NearPoint(ns[i], ms[i], tol)

\* the points ns are at the distances from one another, and from their
\* centroid, that the points ms are, within tol units
SameShape(ns, ms, tol) ==
    /\ Len(ns) = Len(ms)
    /\ \A i, j \in 1..Len(ns) : Near(Dist(ns[i], ns[j]), Dist(ms[i], ms[j]), tol)
    /\ \A i \in 1..Len(ns) :
         Near(Dist(ns[i], Centroid(ns)), Dist(ms[i], Centroid(ms)), tol)

\* whether the controller is in the pressed state when events[k] is handled
PressedAt(k) ==
    LET S == {j \in 1..(k - 1) : events[j].type \in {"mousedown", "mouseup"}}
    IN  S # {} /\ events[CHOOSE j \in S : \A i \in S : i <= j].type = "mousedown"

\* the indices of the pointer-move events handled in the pressed state
PressedMoves == {k \in 1..Len(events) : events[k].type = "mousemove" /\ PressedAt(k)}

\* the number of rotateY / rotateX calls made so far: the two of the script
\* and two for each pointer-move event handled in the pressed state
RotateCalls == 2 + 2 * Cardinality(PressedMoves)

---------------------------------------------------------------------------
(* C5 *)

\* C5 (rigidity): whatever rotateY / rotateX calls have been made, by the
\* script and by the pointer events handled so far, every two points of the
\* mesh, and every point and the centroid, are as far apart as they were
\* when the mesh was constructed, within the tolerance.
C5_Rigidity == SameShape(nodes, nodes0, Tolerance(RotateCalls))

\* two drags by non-zero angles have turned the cube
C5_Witness ==
    /\ Cardinality(PressedMoves) >= 2
    /\ \A k \in PressedMoves : k > 1 /\ events[k - 1].type # "mousemove"
    /\ nodes # MeshRotateX(MeshRotateY(nodes0, 45), 45)

---------------------------------------------------------------------------
(* C8 *)

\* the calls made so far are N >= 1 calls rotateY(theta), all of one theta,
\* with N * theta a full turn in either direction
FullTurnMade ==
    /\ events # <<>>
    /\ \A k \in 1..Len(events) :
         events[k].type = "rotateY" /\ events[k].theta = events[1].theta
    /\ Len(events) * Abs(events[1].theta) = 360

\* C8 (full-turn periodicity): once rotateY(theta) has been applied N times
\* in a row with N * theta = 2 pi, every point is back at the x, y and z it
\* had before the first call, within the tolerance.
C8_FullTurn == FullTurnMade => NearNodes(nodes, nodes0, Tolerance(Len(events)))

\* a full turn in eight steps of a mesh that each step really moved
C8_Witness ==
    /\ FullTurnMade
    /\ Len(events) = 8
    /\ nodes0[1] = Pt(-2, -1, -2)

---------------------------------------------------------------------------
(* C1 *)

\* the number of calls of f among the calls cs
CountOf(cs, f) == Cardinality({k \in 1..Len(cs) : cs[k].f = f})

\* this step handles one pointer-move event
MoveStep == events' # events /\ Last(events').type = "mousemove"

\* C1: a pointer-move event handled in the pressed state, at the position
\* (dx, dy) away from the stored previous position, calls rotateY(dx pi/180),
\* then rotateX(dy pi/180), then clears the surface, then calls Mesh.draw(),
\* each exactly once and all within the handling of that one event; the
\* rest of the calls are the lines and circles of that draw.
C1_PressedMove ==
    [][ (MoveStep /\ MOUSE_IS_PRESSED) =>
          LET e  == Last(events')
              dx == e.x - pMousePos[1]
              dy == e.y - pMousePos[2]
          IN  /\ Len(events') = Len(events) + 1
              /\ Len(calls') >= 4
              /\ calls'[1] = Call("rotateY", <<dx>>)
              /\ calls'[2] = Call("rotateX", <<dy>>)
              /\ calls'[3].f = "clearRect"
              /\ calls'[4].f = "draw"
              /\ \A f \in {"rotateY", "rotateX", "clearRect", "draw"} :
                   CountOf(calls', f) = 1
              /\ \A k \in 5..Len(calls') : calls'[k].f \in {"line", "circle"}
              /\ nodes' = MeshRotateX(MeshRotateY(nodes, dx), dy)
      ]_vars

\* the drag from (100, 100) to (110, 105) has been handled
C1_Witness ==
    /\ events = << Event("mousemove", 100, 100), Event("mousedown", 0, 0),
                   Event("mousemove", 110, 105) >>
    /\ calls[1] = Call("rotateY", <<10>>)
    /\ calls[2] = Call("rotateX", <<5>>)
    /\ calls[3].f = "clearRect"
    /\ calls[4].f = "draw"

---------------------------------------------------------------------------
(* C3 *)

\* the position of the latest pointer-move event among es, pressed or not;
\* (0, 0) when there is none
RECURSIVE LastMovePos(_)
LastMovePos(es) ==
    IF es = <<>> THEN <<0, 0>>
    ELSE IF Last(es).type = "mousemove" THEN <<Last(es).x, Last(es).y>>
    ELSE LastMovePos(SubSeq(es, 1, Len(es) - 1))

\* this step handles the first pointer-move event after a pointer-down
FirstMoveOfDrag == MoveStep /\ events # <<>> /\ Last(events).type = "mousedown"

\* C3 as claimed: the first pointer-move event handled in the pressed state
\* after a pointer-down computes the delta (0, 0): it calls rotateY(0) and
\* rotateX(0) and leaves the coordinates as they were.
C3_ZeroDelta ==
    [][ FirstMoveOfDrag =>
          /\ calls'[1] = Call("rotateY", <<0>>)
          /\ calls'[2] = Call("rotateX", <<0>>)
          /\ nodes' = nodes
      ]_vars

\* C3 as amended: the first pointer-move event handled in the pressed state
\* after a pointer-down computes its delta from the position of the latest
\* pointer-move event before it, pressed or released ((0, 0) when there was
\* none), and calls rotateY and rotateX with that delta; the delta is (0, 0),
\* and the coordinates are left as they were, when the event is at that
\* same position.
C3_DeltaFromLastMove ==
    [][ FirstMoveOfDrag =>
          LET e == Last(events')
              p == LastMovePos(events)
          IN  /\ calls'[1] = Call("rotateY", <<e.x - p[1]>>)
              /\ calls'[2] = Call("rotateX", <<e.y - p[2]>>)
              /\ (e.x = p[1] /\ e.y = p[2]) => nodes' = nodes
      ]_vars

\* a drag that began away from where the pointer was last seen
C3_Witness ==
    /\ events = << Event("mousemove", 100, 100), Event("mousedown", 0, 0),
                   Event("mousemove", 110, 100) >>
    /\ calls[1] = Call("rotateY", <<10>>)
    /\ calls[2] = Call("rotateX", <<0>>)
    /\ nodes # MeshRotateX(MeshRotateY(nodes0, 45), 45)

---------------------------------------------------------------------------
(* C9 *)

\* this step handles one event
EventStep == events' # events

\* C9: a pointer-down or pointer-up changes the pressed state and nothing
\* else; every pointer-move stores the position of its event and leaves the
\* pressed state alone; a pointer-move handled in the released state changes
\* no coordinate and makes no call; so coordinates change, and clear and draw
\* calls are made, only by a pointer-move handled in the pressed state.
C9_OnlyPressedMoves ==
    [][ EventStep =>
          LET e == Last(events')
          IN  /\ e.type \in {"mousedown", "mouseup"} =>
                   /\ MOUSE_IS_PRESSED' = (e.type = "mousedown")
                   /\ nodes' = nodes /\ pMousePos' = pMousePos /\ calls' = <<>>
              /\ e.type = "mousemove" =>
                   /\ pMousePos' = <<e.x, e.y>>
                   /\ MOUSE_IS_PRESSED' = MOUSE_IS_PRESSED
              /\ (e.type = "mousemove" /\ ~MOUSE_IS_PRESSED) =>
                   nodes' = nodes /\ calls' = <<>>
              /\ (nodes' # nodes \/ calls' # <<>>) =>
                   e.type = "mousemove" /\ MOUSE_IS_PRESSED
              /\ edges' = edges
      ]_vars

\* a pointer-move handled in the released state, after a drag that turned the
\* cube, away from the stored position
C9_Witness ==
    /\ Len(events) = 4
    /\ events[1].type = "mousedown"
    /\ events[2].type = "mousemove"
    /\ events[3].type = "mouseup"
    /\ events[4] = Event("mousemove", 110, 105)
    /\ <<events[2].x, events[2].y>> # <<110, 105>>
    /\ ~MOUSE_IS_PRESSED
    /\ pMousePos = <<110, 105>>
    /\ calls = <<>>
    /\ nodes = MeshRotateX(MeshRotateY(MeshRotateX(MeshRotateY(nodes0, 45), 45),
                                       events[2].x), events[2].y)

---------------------------------------------------------------------------
(* C2 *)

\* the mesh is the single point (0, 1, 0) and rotateX(pi/2) is the one call made
RotateXScenario ==
    /\ nodes0 = <<Pt(0, 2, 0)>>
    /\ events = <<DirectCall("rotateX", 90)>>

\* C2 as claimed: rotateX(pi/2) moves the single point (0, 1, 0) to
\* (0, 0, 1), within the tolerance, with x unchanged at 0.
C2_ToPlusZ ==
    RotateXScenario =>
        NearPoint(nodes[1], Pt(0, 0, 2), Tolerance(1)) /\ nodes[1].x = 0

\* C2 as amended: rotateX(pi/2) moves the single point (0, 1, 0) to
\* (0, 0, -1), within the tolerance, with x unchanged at 0.
C2_ToMinusZ ==
    RotateXScenario =>
        NearPoint(nodes[1], Pt(0, 0, -2), Tolerance(1)) /\ nodes[1].x = 0

\* the scenario has run and the point has left (0, 1, 0) for negative z
C2_Witness == RotateXScenario /\ Len(nodes) = 1 /\ nodes[1].z < 0 /\ nodes[1].y < Scale

---------------------------------------------------------------------------
(* C4 *)

\* this step is one direct call of f
CallStep(f) == events' # events /\ Last(events').type = f

\* C4: rotateY(theta) and rotateX(theta) give every point new coordinates
\* computed from that point's own old coordinates, both of them from the old
\* values: x' = x cos - z sin and z' = z cos + x sin for rotateY, z' = z cos -
\* y sin and y' = y cos + z sin for rotateX; the single point (1, 0, 0) is at
\* (0, 0, 1) after rotateY(pi/2) and at (-1, 0, 0) after a second one.
C4_Simultaneous ==
    [][ /\ CallStep("rotateY") =>
             LET t == Last(events').theta
             IN  /\ Len(nodes') = Len(nodes)
                 /\ \A i \in 1..Len(nodes) :
                      /\ nodes'[i].x = Mul(nodes[i].x, Cos(t)) - Mul(nodes[i].z, Sin(t))
                      /\ nodes'[i].z = Mul(nodes[i].z, Cos(t)) + Mul(nodes[i].x, Sin(t))
        /\ CallStep("rotateX") =>
             LET t == Last(events').theta
             IN  /\ Len(nodes') = Len(nodes)
                 /\ \A i \in 1..Len(nodes) :
                      /\ nodes'[i].z = Mul(nodes[i].z, Cos(t)) - Mul(nodes[i].y, Sin(t))
                      /\ nodes'[i].y = Mul(nodes[i].y, Cos(t)) + Mul(nodes[i].z, Sin(t))
        /\ (nodes0 = <<Pt(2, 0, 0)>> /\ events' = <<DirectCall("rotateY", 90)>>) =>
             NearPoint(nodes'[1], Pt(0, 0, 2), Tolerance(1))
        /\ (nodes0 = <<Pt(2, 0, 0)>>
            /\ events' = <<DirectCall("rotateY", 90), DirectCall("rotateY", 90)>>) =>
             NearPoint(nodes'[1], Pt(-2, 0, 0), Tolerance(2))
      ]_vars

\* the single point (1, 0, 0) after its two quarter turns about Y
C4_Witness ==
    /\ nodes0 = <<Pt(2, 0, 0)>>
    /\ events = <<DirectCall("rotateY", 90), DirectCall("rotateY", 90)>>
    /\ nodes[1].x < 0

---------------------------------------------------------------------------
(* C7 *)

\* C7 (axis invariance): rotateY(theta) leaves the y of every point as it
\* was, and rotateX(theta) leaves the x of every point as it was.
C7_AxisInvariance ==
    [][ /\ CallStep("rotateY") =>
             /\ Len(nodes') = Len(nodes)
             /\ \A i \in 1..Len(nodes) : nodes'[i].y = nodes[i].y
        /\ CallStep("rotateX") =>
             /\ Len(nodes') = Len(nodes)
             /\ \A i \in 1..Len(nodes) : nodes'[i].x = nodes[i].x
      ]_vars

\* a rotateY and a rotateX have each moved a point off its axes
C7_Witness ==
    /\ Len(events) = 2
    /\ events[1].type = "rotateY" /\ events[2].type = "rotateX"
    /\ events[1].theta = 45 /\ events[2].theta = -30
    /\ nodes0[1] = Pt(-2, -1, -2)
    /\ nodes[1].x # nodes0[1].x /\ nodes[1].y # nodes0[1].y /\ nodes[1].z # nodes0[1].z

---------------------------------------------------------------------------
(* C6 *)

\* the latest call made on the mesh is draw()
DrawMade == events # <<>> /\ Last(events).type = "draw"

\* the pixel position Node.draw and Edge.draw give the point n
Pixel(n) == <<n.x * PIXELS_PER_UNIT, n.y * PIXELS_PER_UNIT>>

---------------------------------------------------------------------------
(* C10 *)

\* the places of the draw calls among the recorded calls
DrawCalls == {d \in 1..Len(calls) : calls[d].f = "draw"}

\* C10: whatever rotations came before, a draw() strokes the line of each
\* segment from PIXELS_PER_UNIT times the x and y its endpoint A has at that
\* draw to PIXELS_PER_UNIT times the x and y its endpoint B has at that draw,
\* and each end of the line is the centre of the circle the same draw makes
\* for that point.
C10_CurrentEndpoints ==
    \A d \in DrawCalls :
        LET m == Len(edges)
        IN  /\ Len(calls) = d + m + Len(nodes)
            /\ \A k \in 1..m :
                 LET ln == calls[d + k]
                     ca == calls[d + m + edges[k][1]]
                     cb == calls[d + m + edges[k][2]]
                     A  == nodes[edges[k][1]]
                     B  == nodes[edges[k][2]]
                 IN  /\ ln.f = "line" /\ ca.f = "circle" /\ cb.f = "circle"
                     /\ ln.a = << PIXELS_PER_UNIT * A.x, PIXELS_PER_UNIT * A.y,
                                  PIXELS_PER_UNIT * B.x, PIXELS_PER_UNIT * B.y >>
                     /\ <<ln.a[1], ln.a[2]>> = <<ca.a[1], ca.a[2]>>
                     /\ <<ln.a[3], ln.a[4]>> = <<cb.a[1], cb.a[2]>>

\* the redraw of the cube after two drags have turned it
C10_Witness ==
    /\ DrawCalls # {}
    /\ Cardinality(PressedMoves) >= 2
    /\ Len(events) \in PressedMoves
    /\ calls[1].a # <<0>> /\ calls[2].a # <<0>>
    /\ \A i \in 1..Len(nodes) : nodes[i] # nodes0[i]

=============================================================================
